---- MODULE Spec2Model ----
(***************************************************************************)
(* A model of vibesurfer's audio pipeline (audio callback, FFT worker,     *)
(* get_bands) and of its terrain mesh engine (OceanGrid).                  *)
(*                                                                         *)
(* Numbers.  The program computes in f32.  The model computes in exact     *)
(* fixed point: a sample is an integer count of half units (1 = 0.5), a    *)
(* Hann weight a count of quarters, a frequency a whole number of Hz, a    *)
(* terrain length a whole number of thousandths.  Only finite values are   *)
(* modelled: the engine plays a fixed composition (audio/synthesis.rs) of  *)
(* finite samples, and the camera holds finite coordinates.  The rounding  *)
(* of f32 is not modelled.                                                 *)
(*                                                                         *)
(* Configuration.  The program runs FFTConfig::default() (44100 Hz, 1024   *)
(* point FFT, 50 ms).  A 1024 point transform is out of a model checker's  *)
(* reach, so the model runs the same code on a scaled configuration: a 4   *)
(* point FFT at 8 Hz whose worker wakes once a second.  The scaled numbers *)
(* keep the relations of the defaults that the checked properties rest on: *)
(* fft_size is a power of two, the three bands map to non-empty, ordered   *)
(* bin ranges inside the transform, and one update interval plays a little *)
(* over two windows of samples (2205 of 1024; here 8 of 4).                *)
(***************************************************************************)
EXTENDS Integers, Sequences, FiniteSets, TLC

VARIABLES
    \* ---- audio: shared state (system.rs:60-68)
    fft_buf,        \* Arc<Mutex<Vec<f32>>>: the raw sample buffer
    audio_bands,    \* Arc<Mutex<AudioBands>>: the published snapshot
    lock,           \* owner of each mutex, or "free"
    \* ---- audio callback (system.rs:90-125)
    cb_pc, data, frames_needed, frame_idx, samples_to_copy, blk_i,
    blocks_pulled,  \* history: engine.next_block calls of this callback
    len_at_entry,   \* history: Len(fft_buf) when this callback took the lock
    \* ---- FFT worker (fft.rs:24-69)
    fft_pc, fft_out,
    cycle_bands,    \* history: the triple computed by the latest analysis
    prev_bands,     \* history: the triple the latest analysis replaces, until
                    \* its store is complete
    prev_tail,      \* history: second half of the window analysed last
    \* ---- get_bands caller (system.rs:145-148)
    rd_pc, rd_got,
    \* ---- scheduling clock of the timed specification
    clock,
    \* ---- AudioSystem::new (system.rs:27-143)
    cfg,            \* fft_config
    recording,      \* recording_config.is_some()
    new_pc,
    created,        \* what new has created so far
    new_result,     \* "none" until new returns or panics
    worker,         \* the spawned FFT thread: not_spawned, running, panicked
    \* ---- OceanSystem (ocean/system.rs:10-14)
    physics,        \* OceanPhysics
    grid,           \* OceanGrid
    ocean_ret,      \* what the latest OceanSystem::update returned
    last_tick,      \* history: the arguments of the latest update, and
                    \* whether the update before it had the same
    twin,           \* the grid of a second run, flown along the same camera
                    \* path in silence with the clock stopped
    wrapped_vertices    \* history: the vertices the latest update wrapped

audio_vars == <<fft_buf, audio_bands, lock, cb_pc, data, frames_needed,
                frame_idx, samples_to_copy, blk_i, blocks_pulled, len_at_entry,
                fft_pc, fft_out, cycle_bands, prev_bands, prev_tail,
                rd_pc, rd_got>>

new_vars == <<cfg, recording, new_pc, created, new_result, worker>>

ocean_vars == <<physics, grid, ocean_ret, last_tick, twin, wrapped_vertices>>

vars == <<audio_vars, clock, new_vars, ocean_vars>>

(***************************************************************************)
(* Bounds of the model.                                                    *)
(***************************************************************************)
MaxBuf == 5         \* a callback starts only if its frames fit in this
MaxDataLen == 4     \* longest output buffer the host hands over in Spec
MaxCbLen == 7       \* longest output buffer the host hands over in SpecCallback
MaxAmp == 2         \* the engine produces samples in -MaxAmp..MaxAmp
MaxTimedBuf == 20   \* MaxBuf of the timed specification
MaxFft == 4         \* SpecNew: fft_size in 0..MaxFft
MaxRate == 3        \* SpecNew: sample_rate_hz in 0..MaxRate
MaxHz == 2          \* SpecNew: band limits in 0..MaxHz
MaxGrid == 2        \* SpecOcean: grid_size in 1..MaxGrid
MaxCam == 2         \* SpecOcean: camera x in -MaxCam..MaxCam metres, z at 0 or +-MaxCam
MaxTime == 1        \* SpecOcean: time_s in 0..MaxTime seconds

(***************************************************************************)
(* Small arithmetic.                                                       *)
(***************************************************************************)
Min(a, b) == IF a <= b THEN a ELSE b
Max(a, b) == IF a >= b THEN a ELSE b
Abs(a) == IF a < 0 THEN -a ELSE a
CeilDiv(a, b) == (a + b - 1) \div b
Isqrt(n) == CHOOSE r \in 0..n : r * r <= n /\ (r + 1) * (r + 1) > n

RECURSIVE SumTo(_, _, _)
\* f[lo] + ... + f[hi-1]
SumTo(f, lo, hi) == IF lo >= hi THEN 0 ELSE f[lo] + SumTo(f, lo + 1, hi)

(***************************************************************************)
(* params/audio.rs                                                         *)
(***************************************************************************)
BLOCK_SIZE == 2

\* FFTConfig::default(), scaled (see the head of the module).
DefaultFFTConfig ==
    [sample_rate_hz |-> 8, fft_size |-> 4, update_interval_ms |-> 1000,
     bass_range_hz |-> <<0, 2>>, mid_range_hz |-> <<2, 4>>,
     high_range_hz |-> <<4, 6>>]

\* FFTConfig::default() at full size, every frequency (the sample rate too)
\* in hundredths of a Hz, which leaves hz * fft_size / sample_rate as it is.
CentiHz == 100
DefaultFFTConfigCentiHz ==
    [sample_rate_hz |-> 44100 * CentiHz, fft_size |-> 1024, update_interval_ms |-> 50,
     bass_range_hz |-> <<20 * CentiHz, 200 * CentiHz>>,
     mid_range_hz |-> <<200 * CentiHz, 1000 * CentiHz>>,
     high_range_hz |-> <<1000 * CentiHz, 4000 * CentiHz>>]

\* f32 -> usize `as` cast of hz * fft_size / sample_rate: truncates, sends
\* negatives and NaN (0/0) to 0 and saturates +inf (x/0).
UsizeSaturated == 2147483647 - 0
\* Mutant of HzToBin: the bins are spread over half the sample rate.
HzToBinNyquist(c, hz) ==
    IF c.sample_rate_hz = 0
    THEN (IF hz * c.fft_size > 0 THEN UsizeSaturated ELSE 0)
    ELSE IF hz <= 0 THEN 0
    ELSE (hz * c.fft_size) \div Max(1, c.sample_rate_hz \div 2)

\* Mutant of HzToBin: the quotient is rounded up.
HzToBinCeil(c, hz) ==
    IF c.sample_rate_hz = 0
    THEN (IF hz * c.fft_size > 0 THEN UsizeSaturated ELSE 0)
    ELSE IF hz <= 0 THEN 0
    ELSE CeilDiv(hz * c.fft_size, c.sample_rate_hz)

HzToBin(c, hz) ==
    IF c.sample_rate_hz = 0
    THEN (IF hz * c.fft_size > 0 THEN UsizeSaturated ELSE 0)
    ELSE IF hz <= 0 THEN 0
    ELSE (hz * c.fft_size) \div c.sample_rate_hz

\* A Range<usize> is modelled as <<start, end>>.
BassBins(c) == <<HzToBin(c, c.bass_range_hz[1]), HzToBin(c, c.bass_range_hz[2])>>
MidBins(c) == <<HzToBin(c, c.mid_range_hz[1]), HzToBin(c, c.mid_range_hz[2])>>
HighBins(c) == <<HzToBin(c, c.high_range_hz[1]), HzToBin(c, c.high_range_hz[2])>>

\* usize::is_power_of_two
RECURSIVE IsPowerOfTwo(_)
IsPowerOfTwo(n) == n > 0 /\ (n = 1 \/ (n % 2 = 0 /\ IsPowerOfTwo(n \div 2)))

\* Mutant of Validate: the sample rate is not looked at.
ValidateSizeOnly(c) == IF ~IsPowerOfTwo(c.fft_size) THEN "ErrFftSize" ELSE "Ok"

\* FFTConfig::validate
Validate(c) ==
    IF ~IsPowerOfTwo(c.fft_size) THEN "ErrFftSize"
    ELSE IF c.sample_rate_hz = 0 THEN "ErrSampleRate"
    ELSE "Ok"

(***************************************************************************)
(* audio/fft.rs: the analysis of one window.                               *)
(***************************************************************************)
\* 2 * cos(2 * pi * i / 3): the cosine hann_window takes for size = 4.
TwoCosThirds(i) == IF i % 3 = 0 THEN 2 ELSE -1

\* hann_window(index, 4) in quarters: 0.5 * (1 - cos(2 pi index / (size - 1))).
HannWindow(index) == 2 - TwoCosThirds(index)

\* exp(-2 pi i m / 4) = <<re, im>>: the twiddles of the forward 4 point DFT.
Twiddle(m) ==
    CASE m % 4 = 0 -> <<1, 0>>
      [] m % 4 = 1 -> <<0, -1>>
      [] m % 4 = 2 -> <<-1, 0>>
      [] m % 4 = 3 -> <<0, 1>>

\* fft.process on fft_input (imaginary parts 0): bin k -> <<re, im>>.
FftProcess(input, n) ==
    [k \in 0..(n - 1) |->
        <<SumTo([j \in 0..(n - 1) |-> input[j] * Twiddle(k * j)[1]], 0, n),
          SumTo([j \in 0..(n - 1) |-> input[j] * Twiddle(k * j)[2]], 0, n)>>]

\* Complex::norm, rounded down to the fixed-point grid.
Norm(z) == Isqrt(z[1] * z[1] + z[2] * z[2])

\* fft_output[bins].iter().map(norm).sum() / bins.len()
BandMean(output, bins) ==
    SumTo([k \in DOMAIN output |-> Norm(output[k])], bins[1], bins[2])
        \div (bins[2] - bins[1])

\* Lines 31-61 of one cycle: window, transform, the three band means.
BandsOf(c, buf) ==
    LET input == [i \in 0..(c.fft_size - 1) |-> buf[i + 1] * HannWindow(i)]
        output == FftProcess(input, c.fft_size)
    IN  [low |-> BandMean(output, BassBins(c)),
         mid |-> BandMean(output, MidBins(c)),
         high |-> BandMean(output, HighBins(c))]

\* AudioBands::default()
ZeroBands == [low |-> 0, mid |-> 0, high |-> 0]

(***************************************************************************)
(* Mutexes.                                                                *)
(***************************************************************************)
Locks == {"engine", "fft_buffer", "audio_bands", "wav_writer"}
Acquire(l, who) == lock[l] = "free" /\ lock' = [lock EXCEPT ![l] = who]
Release(ls) == lock' = [l \in Locks |-> IF l \in ls THEN "free" ELSE lock[l]]

(***************************************************************************)
(* audio/system.rs: the output callback.                                   *)
(***************************************************************************)
ClampLimit == 1     \* 0.5, in half units
\* Mutant of Clamp: only the upper limit is enforced.
ClampUpperOnly(x) == IF x > ClampLimit THEN ClampLimit ELSE x
Clamp(x) == Max(-ClampLimit, Min(ClampLimit, x))

\* A position of the output buffer: <<>> until written, then <<value>>.
Unwritten == <<>>
EngineVals == (-MaxAmp)..MaxAmp

cb_locals == <<data, frames_needed, frame_idx, samples_to_copy, blk_i,
               blocks_pulled, len_at_entry>>
fft_locals == <<fft_pc, fft_out, cycle_bands, prev_bands, prev_tail>>
rd_locals == <<rd_pc, rd_got>>

\* The host calls the callback with a buffer of len values (line 90); the
\* callback locks the engine (line 91).
CbEnter(len, cap) ==
    /\ cb_pc = "idle"
    /\ Len(fft_buf) + len \div 2 <= cap
    /\ Acquire("engine", "callback")
    /\ data' = [i \in 1..len |-> Unwritten]
    /\ cb_pc' = "lock_buf"
    /\ UNCHANGED <<fft_buf, audio_bands, frames_needed, frame_idx,
                   samples_to_copy, blk_i, blocks_pulled, len_at_entry,
                   fft_locals, rd_locals>>

\* Lines 92-95.
CbLockBuf ==
    /\ cb_pc = "lock_buf"
    /\ Acquire("fft_buffer", "callback")
    /\ frames_needed' = Len(data) \div 2
    /\ frame_idx' = 0
    /\ blocks_pulled' = 0
    /\ len_at_entry' = Len(fft_buf)
    /\ cb_pc' = "while"
    /\ UNCHANGED <<fft_buf, audio_bands, data, samples_to_copy, blk_i,
                   fft_locals, rd_locals>>

\* Lines 98-101: the loop test holds, one more block is pulled.
CbNextBlock ==
    /\ cb_pc = "while"
    /\ frame_idx < frames_needed
    /\ blocks_pulled' = blocks_pulled + 1
    /\ samples_to_copy' = Min(frames_needed - frame_idx, BLOCK_SIZE)
    /\ blk_i' = 0
    /\ cb_pc' = "for"
    /\ UNCHANGED <<fft_buf, audio_bands, lock, data, frames_needed, frame_idx,
                   len_at_entry, fft_locals, rd_locals>>

\* Lines 103-121: frame blk_i of the block; l and r are buffers[0][i] and
\* buffers[1][i], whatever the engine produced.
CbFrame(l, r) ==
    /\ cb_pc = "for"
    /\ blk_i < samples_to_copy
    /\ LET left == Clamp(l)
           right == Clamp(r)
           out_idx == (frame_idx + blk_i) * 2
       IN  /\ data' = [data EXCEPT ![out_idx + 1] = <<left>>,
                                   ![out_idx + 2] = <<right>>]
           /\ fft_buf' = Append(fft_buf, left)
    /\ blk_i' = blk_i + 1
    /\ cb_pc' = IF recording THEN "record" ELSE "for"
    /\ UNCHANGED <<audio_bands, lock, frames_needed, frame_idx,
                   samples_to_copy, blocks_pulled, len_at_entry,
                   fft_locals, rd_locals>>

\* Lines 115-116, when recording: writer.lock().
CbRecordLock ==
    /\ cb_pc = "record"
    /\ Acquire("wav_writer", "callback")
    /\ cb_pc' = "write"
    /\ UNCHANGED <<fft_buf, audio_bands, data, frames_needed, frame_idx,
                   samples_to_copy, blk_i, blocks_pulled, len_at_entry,
                   fft_locals, rd_locals>>

\* Lines 117-119: the two samples are written and the guard drops.
CbRecordWrite ==
    /\ cb_pc = "write"
    /\ lock' = [lock EXCEPT !["wav_writer"] = "free"]
    /\ cb_pc' = "for"
    /\ UNCHANGED <<fft_buf, audio_bands, data, frames_needed, frame_idx,
                   samples_to_copy, blk_i, blocks_pulled, len_at_entry,
                   fft_locals, rd_locals>>

\* Line 123.
CbBlockDone ==
    /\ cb_pc = "for"
    /\ blk_i = samples_to_copy
    /\ frame_idx' = frame_idx + samples_to_copy
    /\ cb_pc' = "while"
    /\ UNCHANGED <<fft_buf, audio_bands, lock, data, frames_needed,
                   samples_to_copy, blk_i, blocks_pulled, len_at_entry,
                   fft_locals, rd_locals>>

\* Line 98: the loop test fails.
CbLoopExit ==
    /\ cb_pc = "while"
    /\ frame_idx >= frames_needed
    /\ cb_pc' = "exit"
    /\ UNCHANGED <<fft_buf, audio_bands, lock, cb_locals, fft_locals, rd_locals>>

\* Line 125: the guards drop, the locals go out of scope and the buffer goes
\* back to the host.
CbReturn ==
    /\ cb_pc = "exit"
    /\ Release({"fft_buffer", "engine"})
    /\ cb_pc' = "idle"
    /\ data' = <<>>
    /\ frames_needed' = 0
    /\ frame_idx' = 0
    /\ samples_to_copy' = 0
    /\ blk_i' = 0
    /\ blocks_pulled' = 0
    /\ len_at_entry' = 0
    /\ UNCHANGED <<fft_buf, audio_bands, fft_locals, rd_locals>>

(***************************************************************************)
(* audio/fft.rs: the worker's loop.                                        *)
(***************************************************************************)
\* Lines 25-27: the sleep ends, the buffer is locked.
FftWake ==
    /\ fft_pc = "sleep"
    /\ Acquire("fft_buffer", "fft")
    /\ fft_pc' = "check"
    /\ UNCHANGED <<fft_buf, audio_bands, cb_pc, cb_locals, fft_out, cycle_bands,
                   prev_bands, prev_tail, rd_locals>>

\* Mutant of FftSkip: a short buffer is thrown away.
FftSkipClears ==
    /\ fft_pc = "check"
    /\ ~(Len(fft_buf) >= 4)
    /\ fft_buf' = <<>>
    /\ lock' = [lock EXCEPT !["fft_buffer"] = "free"]
    /\ fft_pc' = "sleep"
    /\ UNCHANGED <<audio_bands, cb_pc, data, frames_needed, frame_idx,
                   samples_to_copy, blk_i, blocks_pulled, len_at_entry, fft_out,
                   cycle_bands, prev_bands, prev_tail, rd_pc, rd_got>>

\* Mutant of FftSkip: on a short buffer the thread leaves its loop.
FftSkipExits ==
    /\ fft_pc = "check"
    /\ ~(Len(fft_buf) >= 4)
    /\ lock' = [lock EXCEPT !["fft_buffer"] = "free"]
    /\ fft_pc' = "exited"
    /\ UNCHANGED <<fft_buf, audio_bands, cb_pc, data, frames_needed, frame_idx,
                   samples_to_copy, blk_i, blocks_pulled, len_at_entry, fft_out,
                   cycle_bands, prev_bands, prev_tail, rd_pc, rd_got>>

\* Line 29 fails: the guard drops at line 69.
FftSkip ==
    /\ fft_pc = "check"
    /\ ~(Len(fft_buf) >= DefaultFFTConfig.fft_size)
    /\ Release({"fft_buffer"})
    /\ fft_pc' = "sleep"
    /\ UNCHANGED <<fft_buf, audio_bands, cb_pc, cb_locals, fft_out, cycle_bands,
                   prev_bands, prev_tail, rd_locals>>

\* Lines 29-61.
FftAnalyse ==
    /\ fft_pc = "check"
    /\ Len(fft_buf) >= DefaultFFTConfig.fft_size
    /\ fft_out' = BandsOf(DefaultFFTConfig, fft_buf)
    /\ prev_bands' = cycle_bands
    /\ cycle_bands' = fft_out'
    /\ fft_pc' = "lock_bands"
    /\ UNCHANGED <<fft_buf, audio_bands, lock, cb_pc, cb_locals, prev_tail,
                   rd_locals>>

\* Mutant of FftLockBands: the buffer guard is dropped before the snapshot
\* is locked.
FftLockBandsBufferFreed ==
    /\ fft_pc = "lock_bands"
    /\ lock["audio_bands"] = "free"
    /\ lock' = [lock EXCEPT !["audio_bands"] = "fft", !["fft_buffer"] = "free"]
    /\ fft_pc' = "store_low"
    /\ UNCHANGED <<fft_buf, audio_bands, cb_pc, data, frames_needed, frame_idx,
                   samples_to_copy, blk_i, blocks_pulled, len_at_entry, fft_out,
                   cycle_bands, prev_bands, prev_tail, rd_pc, rd_got>>

\* Line 64: audio_bands.lock().
FftLockBands ==
    /\ fft_pc = "lock_bands"
    /\ Acquire("audio_bands", "fft")
    /\ fft_pc' = "store_low"
    /\ UNCHANGED <<fft_buf, audio_bands, cb_pc, cb_locals, fft_out, cycle_bands,
                   prev_bands, prev_tail, rd_locals>>

\* Line 64: the store of the struct, a field at a time; the guard drops
\* with the last.
FftStoreLow ==
    /\ fft_pc = "store_low"
    /\ audio_bands' = [audio_bands EXCEPT !.low = fft_out.low]
    /\ fft_pc' = "store_mid"
    /\ UNCHANGED <<fft_buf, lock, cb_pc, cb_locals, fft_out, cycle_bands,
                   prev_bands, prev_tail, rd_locals>>

FftStoreMid ==
    /\ fft_pc = "store_mid"
    /\ audio_bands' = [audio_bands EXCEPT !.mid = fft_out.mid]
    /\ fft_pc' = "store_high"
    /\ UNCHANGED <<fft_buf, lock, cb_pc, cb_locals, fft_out, cycle_bands,
                   prev_bands, prev_tail, rd_locals>>

FftStoreHigh ==
    /\ fft_pc = "store_high"
    /\ audio_bands' = [audio_bands EXCEPT !.high = fft_out.high]
    /\ Release({"audio_bands"})
    /\ prev_bands' = cycle_bands
    /\ fft_pc' = "drain"
    /\ UNCHANGED <<fft_buf, cb_pc, cb_locals, fft_out, cycle_bands,
                   prev_tail, rd_locals>>

\* Mutant of FftDrain: the whole window is drained, no overlap.
FftDrainWindow ==
    /\ fft_pc = "drain"
    /\ prev_tail' = SubSeq(fft_buf, 3, 4)
    /\ fft_buf' = SubSeq(fft_buf, 5, Len(fft_buf))
    /\ lock' = [lock EXCEPT !["fft_buffer"] = "free"]
    /\ fft_out' = [low |-> 0, mid |-> 0, high |-> 0]
    /\ fft_pc' = "sleep"
    /\ UNCHANGED <<audio_bands, cb_pc, data, frames_needed, frame_idx,
                   samples_to_copy, blk_i, blocks_pulled, len_at_entry,
                   cycle_bands, prev_bands, rd_pc, rd_got>>

\* Lines 67-69: the drain; the locals go out of scope and the guard drops.
FftDrain ==
    /\ fft_pc = "drain"
    /\ prev_tail' = SubSeq(fft_buf, DefaultFFTConfig.fft_size \div 2 + 1,
                           DefaultFFTConfig.fft_size)
    /\ fft_buf' = SubSeq(fft_buf, DefaultFFTConfig.fft_size \div 2 + 1, Len(fft_buf))
    /\ Release({"fft_buffer"})
    /\ fft_out' = ZeroBands
    /\ fft_pc' = "sleep"
    /\ UNCHANGED <<audio_bands, cb_pc, cb_locals, cycle_bands, prev_bands,
                   rd_locals>>

(***************************************************************************)
(* audio/system.rs: get_bands.                                             *)
(***************************************************************************)
RdLock ==
    /\ rd_pc = "idle"
    /\ Acquire("audio_bands", "main")
    /\ rd_pc' = "copy"
    /\ UNCHANGED <<fft_buf, audio_bands, cb_pc, cb_locals, fft_locals, rd_got>>

RdCopy ==
    /\ rd_pc = "copy"
    /\ rd_got' = audio_bands
    /\ Release({"audio_bands"})
    /\ rd_pc' = "returned"
    /\ UNCHANGED <<fft_buf, audio_bands, cb_pc, cb_locals, fft_locals>>

\* Mutant of GetBands: the snapshot is copied without taking its mutex.
GetBandsUnlocked ==
    /\ rd_pc = "idle"
    /\ rd_got' = audio_bands
    /\ rd_pc' = "returned"
    /\ UNCHANGED <<fft_buf, audio_bands, lock, cb_pc, cb_locals, fft_locals>>

GetBands == RdLock \/ RdCopy

\* main.rs:181: the caller's copy lives until the end of its frame.
RdDrop ==
    /\ rd_pc = "returned"
    /\ rd_got' = ZeroBands
    /\ rd_pc' = "idle"
    /\ UNCHANGED <<fft_buf, audio_bands, lock, cb_pc, cb_locals, fft_locals>>

(***************************************************************************)
(* Terrain.  Every f32 of the terrain code is a whole number of            *)
(* thousandths: 2000 is 2.0 m, a frequency of 3 is 0.003.                  *)
(***************************************************************************)
Milli == 1000
\* a * b for two numbers in thousandths
MulMilli(a, b) == (a * b) \div Milli

\* OceanPhysics::default(), scaled: the grid is grid_size cells wide instead
\* of 512 and the hills are 10 m tall instead of 100 m.
ScaledOceanPhysics(grid_size) ==
    [grid_size |-> grid_size, grid_spacing_m |-> 2000, wave_speed |-> 500,
     base_terrain_amplitude_m |-> 10000, base_terrain_frequency |-> 3,
     detail_amplitude_m |-> 2000, detail_frequency |-> 100,
     base_line_width |-> 20, noise_seed |-> 42]

\* AudioReactiveMapping::default()
DefaultMapping ==
    [bass_to_amplitude_scale |-> 3000, mid_to_frequency_scale |-> 150,
     high_to_glow_scale |-> 30]

\* NoiseGenerator::sample_3d.  OpenSimplex is a library; the model puts in
\* its place a fixed function of the seed and the point with values in
\* [-1, 1], here -1, -0.5, 0, 0.5 and 1.
Mix(a) == ((a % 1009) * 37 + (a \div 1009) * 101 + 11) % 1013
Sample3d(seed, x, y, z) == ((Mix(Mix(Mix(x + seed) + y) + z) % 5) - 2) * 500

\* f32::rem_euclid for a positive divisor
RemEuclid(a, b) == a % b

\* Mutant of CellIndices: a row is taken to hold one vertex more than it does.
CellIndicesWideRows(grid_size, z, x) ==
    LET top_left == z * (grid_size + 2) + x
        bottom_left == (z + 1) * (grid_size + 2) + x
    IN  <<top_left, bottom_left, top_left + 1,
          top_left + 1, bottom_left, bottom_left + 1>>

\* Lines 65-77: the six indices of the cell in row z, column x.
CellIndices(grid_size, z, x) ==
    LET top_left == z * (grid_size + 1) + x
        top_right == top_left + 1
        bottom_left == (z + 1) * (grid_size + 1) + x
        bottom_right == bottom_left + 1
    IN  <<top_left, bottom_left, top_right, top_right, bottom_left, bottom_right>>

\* OceanGrid::new.  Vertices are numbered from 0 as in the index buffer;
\* uv is <<x, z>> in units of 1 / grid_size.
OceanGridNew(ph) ==
    LET n == ph.grid_size
        half_size == (n * ph.grid_spacing_m) \div 2
        count == (n + 1) * (n + 1)
        Cell(k) ==
            LET c == (k - 1) \div 6
            IN  CellIndices(n, c \div n, c % n)[((k - 1) % 6) + 1]
    IN  [vertices |->
            [i \in 0..(count - 1) |->
                [position |-> <<(i % (n + 1)) * ph.grid_spacing_m - half_size, 0,
                                (i \div (n + 1)) * ph.grid_spacing_m - half_size>>,
                 uv |-> <<i % (n + 1), i \div (n + 1)>>]],
         indices |-> [k \in 1..(n * n * 6) |-> Cell(k)],
         filtered_indices |-> [k \in 1..(n * n * 6) |-> Cell(k)],
         noise_seed |-> ph.noise_seed,
         grid_size |-> ph.grid_size,
         grid_spacing |-> ph.grid_spacing_m,
         last_camera_pos |-> <<0, 0, 0>>,
         base_terrain_heights |-> [i \in 1..count |-> 0],
         dirty_base_terrain |-> [i \in 1..count |-> TRUE]]

\* OceanGrid::query_base_terrain
QueryBaseTerrain(g, world_x, world_z, ph) ==
    MulMilli(Sample3d(g.noise_seed, MulMilli(world_x, ph.base_terrain_frequency),
                      MulMilli(world_z, ph.base_terrain_frequency), 0),
             ph.base_terrain_amplitude_m)

\* The square of a length in thousandths outgrows the model checker's
\* integers where f32 holds it, so a square is kept as <<whole, rest>>:
\* whole units and a rest of millionths of a unit.
WideSquare(whole, rest) == <<whole + rest \div (Milli * Milli), rest % (Milli * Milli)>>
Squared(d) ==
    LET units == Abs(d) \div Milli
        thousandths == Abs(d) % Milli
        cross == 2 * units * thousandths
    IN  WideSquare(units * units + cross \div Milli,
                   (cross % Milli) * Milli + thousandths * thousandths)
WidePlus(a, b) == WideSquare(a[1] + b[1], a[2] + b[2])
WideLess(a, b) == a[1] < b[1] \/ (a[1] = b[1] /\ a[2] < b[2])

DistanceSquared(a, b) ==
    WidePlus(WidePlus(Squared(a[1] - b[1]), Squared(a[2] - b[2])), Squared(a[3] - b[3]))

MaxEdgeFactor == 10
\* Mutant of KeepsTriangle: the edges are measured on the ground plane.
KeepsTriangleFlat(verts, indices, t, grid_spacing) ==
    LET max_edge_length == grid_spacing * MaxEdgeFactor
        max_edge_sq == Squared(max_edge_length)
        Ground(i) == <<verts[i].position[1], 0, verts[i].position[3]>>
        v0 == Ground(indices[3 * t + 1])
        v1 == Ground(indices[3 * t + 2])
        v2 == Ground(indices[3 * t + 3])
    IN  /\ WideLess(DistanceSquared(v0, v1), max_edge_sq)
        /\ WideLess(DistanceSquared(v1, v2), max_edge_sq)
        /\ WideLess(DistanceSquared(v2, v0), max_edge_sq)

\* The test of line 231 on triangle t (0-based) of the index list.
KeepsTriangle(verts, indices, t, grid_spacing) ==
    LET max_edge_length == grid_spacing * MaxEdgeFactor
        max_edge_sq == Squared(max_edge_length)
        v0 == verts[indices[3 * t + 1]].position
        v1 == verts[indices[3 * t + 2]].position
        v2 == verts[indices[3 * t + 3]].position
    IN  /\ WideLess(DistanceSquared(v0, v1), max_edge_sq)
        /\ WideLess(DistanceSquared(v1, v2), max_edge_sq)
        /\ WideLess(DistanceSquared(v2, v0), max_edge_sq)

\* OceanGrid::filter_stretched_triangles: the new filtered_indices.
\* The loop over count triangles from triangle t on, the list halved at each
\* level so that long lists do not nest deeply.
RECURSIVE FilterFrom(_, _, _, _, _)
FilterFrom(verts, indices, t, count, grid_spacing) ==
    IF count <= 0 THEN <<>>
    ELSE IF count = 1
    THEN (IF KeepsTriangle(verts, indices, t, grid_spacing)
          THEN SubSeq(indices, 3 * t + 1, 3 * t + 3) ELSE <<>>)
    ELSE FilterFrom(verts, indices, t, count \div 2, grid_spacing)
         \o FilterFrom(verts, indices, t + count \div 2, count - count \div 2,
                       grid_spacing)

FilterStretchedTriangles(verts, indices, grid_spacing) ==
    FilterFrom(verts, indices, 0, Len(indices) \div 3, grid_spacing)

\* Mutant of Wrap: one period is corrected and no more.
WrapOnce(local, half_size, grid_world_size) ==
    IF local < -half_size THEN local + grid_world_size
    ELSE IF local >= half_size THEN local - grid_world_size
    ELSE local

\* Mutant of Wrap: the remainder keeps the sign of the dividend, as `%` does.
WrapTruncated(local, half_size, grid_world_size) ==
    LET shifted == local + half_size
    IN  (IF shifted >= 0 THEN shifted % grid_world_size
         ELSE -((-shifted) % grid_world_size)) - half_size

\* Mutant of Wrap: the remainder is taken by the half extent.
WrapHalfPeriod(local, half_size, grid_world_size) ==
    RemEuclid(local + half_size, half_size) - half_size

\* Mutant of Wrap: the half extent is not taken off again.
WrapUnshifted(local, half_size, grid_world_size) ==
    RemEuclid(local + half_size, grid_world_size)

\* Lines 155-158: ((local + half).rem_euclid(size)) - half
Wrap(local, half_size, grid_world_size) ==
    RemEuclid(local + half_size, grid_world_size) - half_size

WrapEpsilon == 10   \* 0.01

\* Mutant of RecomputesBase: a wrap alone does not refresh the cache.
RecomputesWhenDirty(wrapped, dirty) == dirty

\* Mutant of RecomputesBase: the cache is left as it is.
RecomputesNever(wrapped, dirty) == FALSE

\* Line 172: the cached base height is recomputed.
RecomputesBase(wrapped, dirty) == wrapped \/ dirty

\* Mutant of UpdateVertex: the ripple is sampled where the vertex stood
\* before it was wrapped.
UpdateVertexRippleBeforeWrap(g, idx, detail_t, detail_amplitude_m, detail_frequency, camera_pos, ph) ==
    LET camera_delta == [a \in 1..3 |-> camera_pos[a] - g.last_camera_pos[a]]
        grid_world_size == g.grid_size * g.grid_spacing
        half_size == grid_world_size \div 2
        vertex == g.vertices[idx]
        moved_x == vertex.position[1] - camera_delta[1]
        moved_z == vertex.position[3] - camera_delta[3]
        wrapped_x == Wrap(moved_x, half_size, grid_world_size)
        wrapped_z == Wrap(moved_z, half_size, grid_world_size)
        wrapped == \/ Abs(wrapped_x - moved_x) > WrapEpsilon
                   \/ Abs(wrapped_z - moved_z) > WrapEpsilon
        x_world == camera_pos[1] + wrapped_x
        z_world == camera_pos[3] + wrapped_z
        recompute == RecomputesBase(wrapped, g.dirty_base_terrain[idx + 1])
        base_height ==
            IF recompute
            THEN MulMilli(Sample3d(g.noise_seed,
                                   MulMilli(x_world, ph.base_terrain_frequency),
                                   MulMilli(z_world, ph.base_terrain_frequency), 0),
                          ph.base_terrain_amplitude_m)
            ELSE g.base_terrain_heights[idx + 1]
        detail_height ==
            MulMilli(Sample3d(g.noise_seed,
                              MulMilli(camera_pos[1] + moved_x, detail_frequency),
                              MulMilli(camera_pos[3] + moved_z, detail_frequency),
                              detail_t),
                     detail_amplitude_m)
    IN  <<[vertex EXCEPT !.position =
                <<wrapped_x, base_height + detail_height, wrapped_z>>],
          base_height,
          IF recompute THEN FALSE ELSE g.dirty_base_terrain[idx + 1]>>

\* Lines 148-197 for vertex idx: <<vertex, base height, dirty flag>>.
UpdateVertex(g, idx, detail_t, detail_amplitude_m, detail_frequency, camera_pos, ph) ==
    LET camera_delta == [a \in 1..3 |-> camera_pos[a] - g.last_camera_pos[a]]
        grid_world_size == g.grid_size * g.grid_spacing
        half_size == grid_world_size \div 2
        vertex == g.vertices[idx]
        moved_x == vertex.position[1] - camera_delta[1]
        moved_z == vertex.position[3] - camera_delta[3]
        wrapped_x == Wrap(moved_x, half_size, grid_world_size)
        wrapped_z == Wrap(moved_z, half_size, grid_world_size)
        wrapped == \/ Abs(wrapped_x - moved_x) > WrapEpsilon
                   \/ Abs(wrapped_z - moved_z) > WrapEpsilon
        x_world == camera_pos[1] + wrapped_x
        z_world == camera_pos[3] + wrapped_z
        recompute == RecomputesBase(wrapped, g.dirty_base_terrain[idx + 1])
        base_height ==
            IF recompute
            THEN MulMilli(Sample3d(g.noise_seed,
                                   MulMilli(x_world, ph.base_terrain_frequency),
                                   MulMilli(z_world, ph.base_terrain_frequency), 0),
                          ph.base_terrain_amplitude_m)
            ELSE g.base_terrain_heights[idx + 1]
        detail_height ==
            MulMilli(Sample3d(g.noise_seed, MulMilli(x_world, detail_frequency),
                              MulMilli(z_world, detail_frequency), detail_t),
                     detail_amplitude_m)
    IN  <<[vertex EXCEPT !.position =
                <<wrapped_x, base_height + detail_height, wrapped_z>>],
          base_height,
          IF recompute THEN FALSE ELSE g.dirty_base_terrain[idx + 1]>>

\* OceanGrid::update, lines 136-197: the grid when the vertex loop is done.
MoveVertices(g, time_s, detail_amplitude_m, detail_frequency, camera_pos, ph) ==
    LET detail_t == MulMilli(time_s, ph.wave_speed)
        after == [idx \in DOMAIN g.vertices |->
                    UpdateVertex(g, idx, detail_t, detail_amplitude_m,
                                 detail_frequency, camera_pos, ph)]
    IN  [g EXCEPT
            !.last_camera_pos = camera_pos,
            !.vertices = [idx \in DOMAIN g.vertices |-> after[idx][1]],
            !.base_terrain_heights =
                [i \in DOMAIN g.base_terrain_heights |-> after[i - 1][2]],
            !.dirty_base_terrain =
                [i \in DOMAIN g.dirty_base_terrain |-> after[i - 1][3]]]

\* Mutant of OceanGridUpdate: the stretched triangles are removed from the
\* index list itself.
OceanGridUpdateInPlace(g, time_s, detail_amplitude_m, detail_frequency, camera_pos, ph) ==
    LET moved == MoveVertices(g, time_s, detail_amplitude_m, detail_frequency,
                              camera_pos, ph)
        kept == FilterStretchedTriangles(moved.vertices, moved.indices, moved.grid_spacing)
    IN  [moved EXCEPT !.indices = kept, !.filtered_indices = kept]

\* Mutant of OceanGridUpdate: the filter thins the list it left last time.
OceanGridUpdateIncremental(g, time_s, detail_amplitude_m, detail_frequency, camera_pos, ph) ==
    LET moved == MoveVertices(g, time_s, detail_amplitude_m, detail_frequency,
                              camera_pos, ph)
    IN  [moved EXCEPT !.filtered_indices =
            FilterStretchedTriangles(moved.vertices, moved.filtered_indices,
                                     moved.grid_spacing)]

\* Mutant of OceanGridUpdate: the filter runs only in a tick that wrapped a
\* vertex; any other tick hands out the whole index list.
OceanGridUpdateOnWrap(g, time_s, detail_amplitude_m, detail_frequency, camera_pos, ph) ==
    LET moved == MoveVertices(g, time_s, detail_amplitude_m, detail_frequency,
                              camera_pos, ph)
        still == \A i \in DOMAIN g.vertices : \A axis \in {1, 3} :
                    moved.vertices[i].position[axis]
                        = g.vertices[i].position[axis]
                            - (camera_pos[axis] - g.last_camera_pos[axis])
    IN  [moved EXCEPT !.filtered_indices =
            IF still THEN moved.indices
            ELSE FilterStretchedTriangles(moved.vertices, moved.indices,
                                          moved.grid_spacing)]

\* OceanGrid::update: the grid after the call.
OceanGridUpdate(g, time_s, detail_amplitude_m, detail_frequency, camera_pos, ph) ==
    LET moved == MoveVertices(g, time_s, detail_amplitude_m, detail_frequency,
                              camera_pos, ph)
    IN  [moved EXCEPT !.filtered_indices =
            FilterStretchedTriangles(moved.vertices, moved.indices, moved.grid_spacing)]

\* Mutant of MapBands: the bass drives the frequency and the mids the
\* amplitude.
MapBandsCrossed(ph, mapping, bands) ==
    <<ph.detail_amplitude_m + MulMilli(bands.mid, mapping.bass_to_amplitude_scale),
      ph.detail_frequency + MulMilli(bands.low, mapping.mid_to_frequency_scale),
      ph.base_line_width + MulMilli(bands.high, mapping.high_to_glow_scale)>>

\* OceanSystem::update, lines 46-53: <<amplitude, frequency, line_width>>.
MapBands(ph, mapping, bands) ==
    <<ph.detail_amplitude_m + MulMilli(bands.low, mapping.bass_to_amplitude_scale),
      ph.detail_frequency + MulMilli(bands.mid, mapping.mid_to_frequency_scale),
      ph.base_line_width + MulMilli(bands.high, mapping.high_to_glow_scale)>>

\* Mutant of OceanSystemUpdate: the bass also swells the hills.
OceanSystemUpdateLoud(time_s, bands, camera_pos) ==
    LET mapped == MapBands(physics, DefaultMapping, bands)
        loud == [physics EXCEPT !.base_terrain_amplitude_m =
                    @ + MulMilli(bands.low, DefaultMapping.bass_to_amplitude_scale)]
    IN  /\ grid' = OceanGridUpdate(grid, time_s, mapped[1], mapped[2], camera_pos, loud)
        /\ ocean_ret' = mapped
        /\ last_tick' = [time_s |-> time_s, bands |-> bands, camera_pos |-> camera_pos,
                         repeated |-> /\ last_tick.time_s = time_s
                                      /\ last_tick.bands = bands
                                      /\ last_tick.camera_pos = camera_pos]
        /\ UNCHANGED physics

\* OceanSystem::update
OceanSystemUpdate(time_s, bands, camera_pos) ==
    LET mapped == MapBands(physics, DefaultMapping, bands)
    IN  /\ grid' = OceanGridUpdate(grid, time_s, mapped[1], mapped[2],
                                  camera_pos, physics)
        /\ ocean_ret' = mapped
        /\ last_tick' = [time_s |-> time_s, bands |-> bands, camera_pos |-> camera_pos,
                         repeated |-> /\ last_tick.time_s = time_s
                                      /\ last_tick.bands = bands
                                      /\ last_tick.camera_pos = camera_pos]
        /\ UNCHANGED physics

\* The bands of the test of system.rs:78-82, and silence.
TestBands == [low |-> 1000, mid |-> 500, high |-> 200]
BandChoices == {ZeroBands, TestBands}
\* The camera flies at a fixed height; update never reads camera_pos.y.
CameraHeight == 1 * Milli
CameraPositions ==
    {<<x * Milli, CameraHeight, z * Milli>> :
        x \in (-MaxCam)..MaxCam, z \in {-MaxCam, 0, MaxCam}}
Times == {t * Milli : t \in 0..MaxTime}

NoTick == [time_s |-> 0, bands |-> ZeroBands, camera_pos |-> <<>>, repeated |-> FALSE]

\* OceanSystem::new
OceanSystemNew(ph) ==
    /\ physics = ph
    /\ grid = OceanGridNew(ph)
    /\ ocean_ret = <<0, 0, 0>>
    /\ last_tick = NoTick
    /\ twin = OceanGridNew(ph)
    /\ wrapped_vertices = {}

\* The ocean of specifications that do not move it.
OceanIdle == OceanSystemNew(ScaledOceanPhysics(1))

(***************************************************************************)
(* The audio system, in any interleaving.                                  *)
(***************************************************************************)
AudioInit ==
    /\ fft_buf = <<>>
    /\ audio_bands = ZeroBands
    /\ lock = [l \in Locks |-> "free"]
    /\ cb_pc = "idle"
    /\ data = <<>>
    /\ frames_needed = 0
    /\ frame_idx = 0
    /\ samples_to_copy = 0
    /\ blk_i = 0
    /\ blocks_pulled = 0
    /\ len_at_entry = 0
    /\ fft_pc = "sleep"
    /\ fft_out = ZeroBands
    /\ cycle_bands = ZeroBands
    /\ prev_bands = ZeroBands
    /\ prev_tail = <<>>
    /\ rd_pc = "idle"
    /\ rd_got = ZeroBands

CallbackBody(vals) ==
    \/ CbLockBuf
    \/ CbNextBlock
    \/ \E l \in vals, r \in vals : CbFrame(l, r)
    \/ CbBlockDone
    \/ CbLoopExit
    \/ CbReturn

Callback(lens, vals, cap) ==
    \/ \E len \in lens : CbEnter(len, cap)
    \/ CallbackBody(vals)

FftCycle ==
    \/ FftSkip
    \/ FftAnalyse
    \/ FftLockBands
    \/ FftStoreLow
    \/ FftStoreMid
    \/ FftStoreHigh
    \/ FftDrain

FftWorker == FftWake \/ FftCycle

\* The state AudioSystem::new(FFTConfig::default(), None) leaves (main.rs:112).
Started ==
    /\ cfg = DefaultFFTConfig
    /\ recording = FALSE
    /\ new_pc = "done"
    /\ created = {"engine", "stream", "fft_thread"}
    /\ new_result = "Ok"
    /\ worker = "running"

Init == AudioInit /\ clock = 0 /\ Started /\ OceanIdle

Next ==
    \/ Callback(0..MaxDataLen, EngineVals, MaxBuf) /\ UNCHANGED <<clock, new_vars, ocean_vars>>
    \/ FftWorker /\ UNCHANGED <<clock, new_vars, ocean_vars>>
    \/ GetBands /\ UNCHANGED <<clock, new_vars, ocean_vars>>
    \/ RdDrop /\ UNCHANGED <<clock, new_vars, ocean_vars>>

Spec == Init /\ [][Next]_vars

\* The callback against the worker alone, on longer output buffers.
NextCallback ==
    \/ Callback(0..MaxCbLen, EngineVals, MaxBuf) /\ UNCHANGED <<clock, new_vars, ocean_vars>>
    \/ FftWorker /\ UNCHANGED <<clock, new_vars, ocean_vars>>

SpecCallback == Init /\ [][NextCallback]_vars

(***************************************************************************)
(* The audio system on its clocks.  clock counts the frames played since   *)
(* the worker last woke.  The device plays sample_rate_hz frames a second  *)
(* and asks for the next buffer when the last one is played, so a callback *)
(* of len / 2 frames moves the clock by len / 2 (system.rs:90-125 appends  *)
(* one sample a frame); the worker sleeps update_interval_ms between       *)
(* cycles (fft.rs:25), so it wakes when the clock has counted one          *)
(* interval's frames.  The engine plays silence: lengths are all that the  *)
(* clocks decide.                                                          *)
(***************************************************************************)
SamplesPerInterval(c) == (c.sample_rate_hz * c.update_interval_ms) \div 1000

TimedLens == {BLOCK_SIZE, 2 * BLOCK_SIZE}

TimedCbEnter ==
    \E len \in TimedLens :
        /\ clock + len \div 2 <= SamplesPerInterval(DefaultFFTConfig)
        /\ CbEnter(len, MaxTimedBuf)
        /\ clock' = clock + len \div 2
        /\ UNCHANGED <<new_vars, ocean_vars>>

TimedFftWake ==
    /\ clock >= SamplesPerInterval(DefaultFFTConfig)
    /\ FftWake
    /\ clock' = clock - SamplesPerInterval(DefaultFFTConfig)
    /\ UNCHANGED <<new_vars, ocean_vars>>

NextTimed ==
    \/ TimedCbEnter
    \/ CallbackBody({0}) /\ UNCHANGED <<clock, new_vars, ocean_vars>>
    \/ TimedFftWake
    \/ FftCycle /\ UNCHANGED <<clock, new_vars, ocean_vars>>

SpecTimed == Init /\ [][NextTimed]_vars

(***************************************************************************)
(* The three contexts under fair scheduling, with and without a recording  *)
(* sink.  The device asks for one buffer after another (cpal calls the     *)
(* callback for as long as the stream plays), the worker's sleep ends      *)
(* (fft.rs:25) and the render loop calls get_bands every frame             *)
(* (main.rs:181): a step that needs no lock is taken if it stays possible  *)
(* (WF).  A context that asks for a mutex over and over while the mutex    *)
(* is free again and again gets it (SF): the worker sleeps a whole         *)
(* interval between two cycles and the callback returns to the host        *)
(* between two buffers, so neither can take a mutex back each time before  *)
(* the other is served.  The engine plays one loud tone: what the         *)
(* samples are decides no step here.                                       *)
(***************************************************************************)
Quiet(A) == A /\ UNCHANGED <<clock, new_vars, ocean_vars>>

StartedFair ==
    /\ cfg = DefaultFFTConfig
    /\ recording \in BOOLEAN
    /\ new_pc = "done"
    /\ created = IF recording THEN {"wav_writer", "engine", "stream", "fft_thread"}
                 ELSE {"engine", "stream", "fft_thread"}
    /\ new_result = "Ok"
    /\ worker = "running"

InitFair == AudioInit /\ clock = 0 /\ StartedFair /\ OceanIdle

CallbackEnters == \E len \in TimedLens : CbEnter(len, MaxBuf)
CallbackRuns ==
    \/ CallbackEnters
    \/ CbNextBlock
    \/ \E l \in {MaxAmp}, r \in {0} : CbFrame(l, r)
    \/ CbBlockDone
    \/ CbLoopExit
    \/ CbReturn
    \/ CbRecordWrite
WorkerRuns ==
    \/ FftSkip
    \/ FftAnalyse
    \/ FftStoreLow
    \/ FftStoreMid
    \/ FftStoreHigh
    \/ FftDrain
ReaderRuns == RdCopy \/ RdDrop

NextFair ==
    \/ Quiet(CallbackRuns)
    \/ Quiet(CbLockBuf)
    \/ Quiet(CbRecordLock)
    \/ Quiet(WorkerRuns)
    \/ Quiet(FftWake)
    \/ Quiet(FftLockBands)
    \/ Quiet(ReaderRuns)
    \/ Quiet(RdLock)

Fairness ==
    /\ WF_vars(Quiet(CallbackRuns))
    /\ SF_vars(Quiet(CbLockBuf))
    /\ SF_vars(Quiet(CbRecordLock))
    /\ WF_vars(Quiet(WorkerRuns))
    /\ SF_vars(Quiet(FftWake))
    /\ SF_vars(Quiet(FftLockBands))
    /\ WF_vars(Quiet(ReaderRuns))
    /\ SF_vars(Quiet(RdLock))

SpecFair == InitFair /\ [][NextFair]_vars /\ Fairness

(***************************************************************************)
(* audio/system.rs: AudioSystem::new, for any configuration, and what the  *)
(* thread it spawns does with that configuration once the buffer holds a   *)
(* window.  Every call into a library (hound, glicol, cpal) may fail.      *)
(***************************************************************************)
HzPairs == (0..MaxHz) \X (0..MaxHz)

Configs ==
    [sample_rate_hz : 0..MaxRate, fft_size : 0..MaxFft,
     update_interval_ms : {DefaultFFTConfig.update_interval_ms},
     bass_range_hz : HzPairs, mid_range_hz : HzPairs, high_range_hz : HzPairs]

NewReturn(r) == new_result' = r /\ new_pc' = "done"

\* Lines 32-34.
NewValidate ==
    /\ new_pc = "validate"
    /\ IF Validate(cfg) = "Ok"
       THEN new_pc' = "wav_writer" /\ UNCHANGED new_result
       ELSE NewReturn("ErrInvalidFftConfig")
    /\ UNCHANGED <<cfg, recording, created, worker>>

\* Lines 37-48: WavWriter::create(..).expect(..) when recording.
NewWavWriter ==
    /\ new_pc = "wav_writer"
    /\ \/ /\ created' = IF recording THEN created \cup {"wav_writer"} ELSE created
          /\ new_pc' = "engine"
          /\ UNCHANGED new_result
       \/ /\ recording
          /\ NewReturn("PanicWavWriter")
          /\ UNCHANGED created
    /\ UNCHANGED <<cfg, recording, worker>>

\* Lines 53-58.
NewEngine ==
    /\ new_pc = "engine"
    /\ created' = created \cup {"engine"}
    /\ \/ new_pc' = "device" /\ UNCHANGED new_result
       \/ NewReturn("ErrEngineInit")
    /\ UNCHANGED <<cfg, recording, worker>>

\* Lines 71-78.
NewDevice ==
    /\ new_pc = "device"
    /\ \/ new_pc' = "stream" /\ UNCHANGED new_result
       \/ NewReturn("ErrNoDevice")
       \/ NewReturn("ErrDeviceConfig")
    /\ UNCHANGED <<cfg, recording, created, worker>>

\* Lines 87-129.
NewStream ==
    /\ new_pc = "stream"
    /\ \/ /\ created' = created \cup {"stream"}
          /\ new_pc' = "play"
          /\ UNCHANGED new_result
       \/ NewReturn("ErrBuildStream") /\ UNCHANGED created
    /\ UNCHANGED <<cfg, recording, worker>>

\* Lines 131-133.
NewPlay ==
    /\ new_pc = "play"
    /\ \/ new_pc' = "spawn" /\ UNCHANGED new_result
       \/ NewReturn("ErrPlay")
    /\ UNCHANGED <<cfg, recording, created, worker>>

\* Lines 136-142.
NewSpawn ==
    /\ new_pc = "spawn"
    /\ created' = created \cup {"fft_thread"}
    /\ worker' = "running"
    /\ NewReturn("Ok")
    /\ UNCHANGED <<cfg, recording>>

AudioSystemNew ==
    \/ NewValidate
    \/ NewWavWriter
    \/ NewEngine
    \/ NewDevice
    \/ NewStream
    \/ NewPlay
    \/ NewSpawn

\* &fft_output[bins]: the slice exists when start <= end <= len; indexing
\* panics otherwise.
SliceOk(bins, len) == bins[1] <= bins[2] /\ bins[2] <= len

\* The bands a cycle extracts without panicking (fft.rs:41-61), in order.
RECURSIVE BandsExtracted(_, _)
BandsExtracted(ranges, len) ==
    IF ranges = <<>> \/ ~SliceOk(Head(ranges), len) THEN 0
    ELSE 1 + BandsExtracted(Tail(ranges), len)

\* fft.rs:29-67 for a buffer that holds a window: the cycle publishes and
\* drains, or the thread panics on a slice.
WorkerCycle ==
    /\ worker = "running"
    /\ worker' = IF BandsExtracted(<<BassBins(cfg), MidBins(cfg), HighBins(cfg)>>,
                                   cfg.fft_size) = 3
                 THEN "running" ELSE "panicked"
    /\ UNCHANGED <<cfg, recording, new_pc, created, new_result>>

InitNew ==
    /\ AudioInit
    /\ clock = 0
    /\ cfg \in Configs \cup {DefaultFFTConfigCentiHz}
    /\ recording \in BOOLEAN
    /\ new_pc = "validate"
    /\ created = {}
    /\ new_result = "none"
    /\ worker = "not_spawned"
    /\ OceanIdle

NextNew ==
    \/ AudioSystemNew /\ UNCHANGED <<audio_vars, clock, ocean_vars>>
    \/ WorkerCycle /\ UNCHANGED <<audio_vars, clock, ocean_vars>>

SpecNew == InitNew /\ [][NextNew]_vars

(***************************************************************************)
(* The render loop's terrain ticks (main.rs render), for any camera path,  *)
(* clock and band energies.                                                *)
(***************************************************************************)
InitOcean ==
    /\ AudioInit
    /\ clock = 0
    /\ Started
    /\ \E n \in 1..MaxGrid : OceanSystemNew(ScaledOceanPhysics(n))

NextOcean ==
    \E time_s \in Times, bands \in BandChoices, camera_pos \in CameraPositions :
        /\ OceanSystemUpdate(time_s, bands, camera_pos)
        /\ UNCHANGED <<audio_vars, clock, new_vars, twin, wrapped_vertices>>

SpecOcean == InitOcean /\ [][NextOcean]_vars

(***************************************************************************)
(* The terrain on a grid 100 m wide, the camera stepping between stations  *)
(* 10 m apart along x: -2 and 8, 5 and 15.                                 *)
(***************************************************************************)
WidePhysics(grid_size) ==
    [ScaledOceanPhysics(grid_size) EXCEPT !.grid_spacing_m = (100 * Milli) \div grid_size]

StationCameras ==
    {<<x * Milli, CameraHeight, z * Milli>> :
        x \in {-2, 5, 8, 15}, z \in {-MaxCam, 0, MaxCam}}

InitStations ==
    /\ AudioInit
    /\ clock = 0
    /\ Started
    /\ \E n \in {1, 2} : OceanSystemNew(WidePhysics(n))

NextStations ==
    \E time_s \in Times, bands \in BandChoices, camera_pos \in StationCameras :
        /\ OceanSystemUpdate(time_s, bands, camera_pos)
        /\ UNCHANGED <<audio_vars, clock, new_vars, twin, wrapped_vertices>>

SpecStations == InitStations /\ [][NextStations]_vars

(***************************************************************************)
(* The terrain under a camera that also climbs and sinks.                  *)
(***************************************************************************)
CameraHeights == {CameraHeight, 2 * CameraHeight}

ClimbingCameras ==
    {<<x * Milli, y, z * Milli>> :
        x \in (-MaxCam)..MaxCam, y \in CameraHeights, z \in {-MaxCam, 0, MaxCam}}

NextClimb ==
    \E time_s \in {0}, bands \in BandChoices, camera_pos \in ClimbingCameras :
        /\ OceanSystemUpdate(time_s, bands, camera_pos)
        /\ UNCHANGED <<audio_vars, clock, new_vars, twin, wrapped_vertices>>

SpecClimb == InitOcean /\ [][NextClimb]_vars

(***************************************************************************)
(* The terrain on a grid of 7 cells, where a wrap stretches an edge to 6   *)
(* cells and a hill can bring it to 10, and on a grid of 12, where the     *)
(* wrap alone stretches it to 11; over hills and over flat ground, with a  *)
(* record of the vertices each tick wrapped.                               *)
(***************************************************************************)
FlatPhysics(grid_size) ==
    [ScaledOceanPhysics(grid_size) EXCEPT !.base_terrain_amplitude_m = 0,
                                          !.detail_amplitude_m = 0]

SeamSizes == {7, 12}

\* The camera rests at the origin or flies along x, a metre at a time.
SeamCameras == {<<0, 0, 0>>} \cup {<<x * Milli, CameraHeight, 0>> : x \in {-1, 0, 1, 2}}

\* Lines 160-161 as seen from outside: the vertices whose local x or z is not
\* the old one less the camera's move.
WrappedBy(before, after) ==
    {i \in DOMAIN before.vertices :
        \E axis \in {1, 3} :
            after.vertices[i].position[axis]
                # before.vertices[i].position[axis]
                    - (after.last_camera_pos[axis] - before.last_camera_pos[axis])}

InitSeam ==
    /\ AudioInit
    /\ clock = 0
    /\ Started
    /\ \E n \in SeamSizes :
          \/ OceanSystemNew(ScaledOceanPhysics(n))
          \/ OceanSystemNew(FlatPhysics(n))

NextSeam ==
    \E time_s \in {0}, bands \in BandChoices, camera_pos \in SeamCameras :
        /\ OceanSystemUpdate(time_s, bands, camera_pos)
        /\ wrapped_vertices' = WrappedBy(grid, grid')
        /\ UNCHANGED <<audio_vars, clock, new_vars, twin>>

SpecSeam == InitSeam /\ [][NextSeam]_vars

(***************************************************************************)
(* Two runs of the terrain along one camera path.  The first hears any     *)
(* bands at any time; the second, twin, hears silence with its clock at 0. *)
(* Two runs that each agree with the silent run agree with one another.    *)
(***************************************************************************)
SilentTick(g, camera_pos) ==
    LET mapped == MapBands(physics, DefaultMapping, ZeroBands)
    IN  OceanGridUpdate(g, 0, mapped[1], mapped[2], camera_pos, physics)

NextTwin ==
    \E time_s \in Times, bands \in BandChoices, camera_pos \in CameraPositions :
        /\ OceanSystemUpdate(time_s, bands, camera_pos)
        /\ twin' = SilentTick(twin, camera_pos)
        /\ UNCHANGED <<audio_vars, clock, new_vars, wrapped_vertices>>

SpecTwin == InitOcean /\ [][NextTwin]_vars

(***************************************************************************)
(* Properties of the audio pipeline.                                       *)
(***************************************************************************)
FftSize == DefaultFFTConfig.fft_size
StorePcs == {"store_low", "store_mid", "store_high"}

\* C1: every value get_bands returns is the initial all-zero snapshot or the
\* whole triple one analysis computed from one window (the latest one, or
\* the one it replaces while its store is not complete), never a mix of two;
\* and only the FFT worker, holding the snapshot's mutex, writes the snapshot.
C1_SnapshotIsWhole ==
    [][/\ (rd_pc # "returned" /\ rd_pc' = "returned")
            => rd_got' \in {cycle_bands, prev_bands}
       /\ (fft_pc = "check" /\ fft_pc' = "lock_bands")
            => cycle_bands' = BandsOf(DefaultFFTConfig, SubSeq(fft_buf, 1, FftSize))
       /\ (audio_bands' # audio_bands)
            => fft_pc \in StorePcs /\ lock["audio_bands"] = "fft"]_vars

\* A caller holds a non-zero triple that the worker is replacing with a
\* different one.
C1_Witness ==
    /\ rd_pc = "returned"
    /\ rd_got # ZeroBands
    /\ rd_got = prev_bands
    /\ prev_bands # cycle_bands
    /\ fft_pc \in StorePcs

\* C2: a cycle that finds fewer than fft_size samples changes neither the
\* buffer nor the snapshot and goes back to sleep, the buffer unlocked.
C2_ShortBufferIsNoOp ==
    [][(fft_pc = "check" /\ fft_pc' # "check" /\ Len(fft_buf) < FftSize)
        => /\ fft_buf' = fft_buf
           /\ audio_bands' = audio_bands
           /\ fft_pc' = "sleep"
           /\ lock'["fft_buffer"] = "free"]_vars

\* A cycle has found a short, non-empty buffer after an earlier cycle
\* published.
C2_Witness ==
    /\ fft_pc = "check"
    /\ Len(fft_buf) \in 1..(FftSize - 1)
    /\ audio_bands # ZeroBands

\* C3: a cycle that finds fft_size samples or more analyses the first
\* fft_size of them; from the analysis to the drain the buffer does not
\* change; the drain removes the first fft_size / 2 samples and nothing
\* else; the first half of each analysed window is the second half of the
\* window analysed before it; every other step only appends.
C3_HalfWindowOverlap ==
    [][/\ (fft_pc = "check" /\ fft_pc' = "lock_bands")
            => /\ fft_out' = BandsOf(DefaultFFTConfig, SubSeq(fft_buf, 1, FftSize))
               /\ prev_tail # <<>>
                    => SubSeq(fft_buf, 1, FftSize \div 2) = prev_tail
       /\ (fft_pc \in StorePcs \cup {"lock_bands", "drain"} /\ fft_pc' # "sleep")
            => fft_buf' = fft_buf
       /\ (fft_pc = "drain" /\ fft_pc' = "sleep")
            => fft_buf' = SubSeq(fft_buf, FftSize \div 2 + 1, Len(fft_buf))
       /\ ~(fft_pc = "drain" /\ fft_pc' = "sleep")
            => /\ Len(fft_buf') >= Len(fft_buf)
               /\ SubSeq(fft_buf', 1, Len(fft_buf)) = fft_buf]_vars

\* A window has been analysed whose first half, two different samples, is
\* the second half of the window before it.
C3_Witness ==
    /\ fft_pc = "lock_bands"
    /\ prev_tail # <<>>
    /\ prev_tail[1] # prev_tail[2]
    /\ SubSeq(fft_buf, 1, FftSize \div 2) = prev_tail
    /\ Len(fft_buf) > FftSize

\* The frames the running callback has finished.
FramesDone == frame_idx + (IF cb_pc = "for" THEN blk_i ELSE 0)

\* C5: every value written to the output buffer and every buffered sample
\* lies in [-0.5, 0.5], and the samples a callback has appended are, in
\* order, the left-channel values it wrote to the output.
C5_ClampedAndMirrored ==
    /\ \A i \in 1..Len(fft_buf) : fft_buf[i] \in (-ClampLimit)..ClampLimit
    /\ \A i \in 1..Len(data) :
            data[i] # Unwritten => data[i][1] \in (-ClampLimit)..ClampLimit
    /\ cb_pc \in {"while", "for", "exit"}
        => /\ Len(fft_buf) = len_at_entry + FramesDone
           /\ \A k \in 0..(FramesDone - 1) :
                   <<fft_buf[len_at_entry + k + 1]>> = data[2 * k + 1]

\* A callback has written both limits and a value between them.
C5_Witness ==
    /\ cb_pc = "exit"
    /\ \E i, j, k \in 1..Len(data) :
            /\ data[i] = <<ClampLimit>> /\ data[j] = <<-ClampLimit>>
            /\ data[k] = <<0>>
            /\ i % 2 = 1 /\ j % 2 = 1

\* C6: when the callback's loop ends, every position of the output buffer
\* has been written, ceil((L / 2) / BLOCK_SIZE) blocks have been pulled and
\* L / 2 samples have been appended.
C6_FillsWholeBuffer ==
    cb_pc = "exit"
    => /\ \A i \in 1..Len(data) : data[i] # Unwritten
       /\ blocks_pulled = CeilDiv(Len(data) \div 2, BLOCK_SIZE)
       /\ Len(fft_buf) - len_at_entry = Len(data) \div 2

\* C4: on the default clocks the raw sample buffer stays bounded: the window
\* a cycle analyses ends at most one window before the newest sample, so a
\* cycle finds at most two windows of samples, and between two cycles at
\* most one interval's samples are added to that.
C4_BufferBounded ==
    /\ fft_pc = "lock_bands" => Len(fft_buf) <= 2 * FftSize
    /\ Len(fft_buf) <= 2 * FftSize + SamplesPerInterval(DefaultFFTConfig)

\* What the documentation asks of a configuration.
PowerOfTwo(n) == \E k \in 0..30 : n = 2 ^ k
BandsOrdered(c) ==
    /\ c.bass_range_hz[1] < c.bass_range_hz[2]
    /\ c.mid_range_hz[1] < c.mid_range_hz[2]
    /\ c.high_range_hz[1] < c.high_range_hz[2]

\* C7: before validation has succeeded nothing is created; for a
\* configuration whose fft_size is no power of two (0 included) or whose
\* sample rate is 0, new returns the invalid-configuration error and no
\* recording sink, engine, stream or FFT thread ever exists.
C7_ValidationComesFirst ==
    /\ new_pc = "validate" => created = {} /\ worker = "not_spawned"
    /\ (~PowerOfTwo(cfg.fft_size) \/ cfg.sample_rate_hz = 0)
        => /\ created = {}
           /\ worker = "not_spawned"
           /\ new_pc \in {"validate", "done"}
           /\ new_pc = "done" => new_result = "ErrInvalidFftConfig"

\* new has rejected a recording configuration for its sample rate alone.
C7_Witness ==
    /\ new_pc = "done"
    /\ new_result = "ErrInvalidFftConfig"
    /\ recording
    /\ PowerOfTwo(cfg.fft_size)
    /\ cfg.sample_rate_hz = 0

\* C8: a configuration that passes validation has low < high in each of its
\* three bands.
C8_RejectsUnorderedBands ==
    (new_pc # "validate" /\ new_result # "ErrInvalidFftConfig") => BandsOrdered(cfg)

\* C9: for a configuration that passes validation the worker never panics
\* (the claim's ground, that each band's bin range is non-empty and inside
\* the transform, is what keeps the slices of fft_output defined).
C9_WorkerNeverPanics == worker # "panicked"

(***************************************************************************)
(* Properties of the terrain mesh.                                         *)
(***************************************************************************)
GridExtent(g) == g.grid_size * g.grid_spacing
GridHalf(g) == GridExtent(g) \div 2

\* C10: an update leaves every vertex's local x and z in [-half, half), each
\* an integer multiple of the extent away from where the camera delta alone
\* would have put it.
C10_WrapInvariant ==
    [][grid' # grid =>
        \A i \in DOMAIN grid.vertices : \A axis \in {1, 3} :
            LET moved == grid.vertices[i].position[axis]
                            - (grid'.last_camera_pos[axis] - grid.last_camera_pos[axis])
                local == grid'.vertices[i].position[axis]
            IN  /\ -GridHalf(grid) <= local
                /\ local < GridHalf(grid)
                /\ (local - moved) % GridExtent(grid) = 0]_vars

\* The grid has been updated, and one of its vertices stands two extents or
\* more along x from where it was made.
C10_Witness ==
    /\ ~grid.dirty_base_terrain[1]
    /\ \E i \in DOMAIN grid.vertices :
          Abs(grid.last_camera_pos[1] + grid.vertices[i].position[1]
              - OceanGridNew(physics).vertices[i].position[1])
            >= 2 * GridExtent(grid)

\* The vertices of triangle t (numbered from 0) of an index list.
Triangle(indices, t) == SubSeq(indices, 3 * t + 1, 3 * t + 3)
TriangleCount(indices) == Len(indices) \div 3

\* C11: a grid made for grid_size G has (G+1)^2 vertices and G^2 * 6 indices,
\* every index names a vertex, and the three corners of every triangle are
\* three different vertices.
C11_GridCounts ==
    LET G == physics.grid_size
        vertex_count == Cardinality(DOMAIN grid.vertices)
    IN  /\ vertex_count = (G + 1) * (G + 1)
        /\ DOMAIN grid.vertices = 0..(vertex_count - 1)
        /\ Len(grid.indices) = G * G * 6
        /\ \A k \in 1..Len(grid.indices) : grid.indices[k] \in 0..(vertex_count - 1)
        /\ \A t \in 0..(TriangleCount(grid.indices) - 1) :
              LET tri == Triangle(grid.indices, t)
              IN  tri[1] # tri[2] /\ tri[2] # tri[3] /\ tri[3] # tri[1]

\* A grid of more than one cell, as new returned it.
C11_Witness ==
    /\ last_tick = NoTick
    /\ physics.grid_size > 1
    /\ Len(grid.indices) = physics.grid_size * physics.grid_size * 6
    /\ grid.indices[Len(grid.indices)] = Cardinality(DOMAIN grid.vertices) - 1

\* C12: whatever updates have run, the vertex array, the base-height cache
\* and the dirty flags are as long as the vertex count fixed by new, and the
\* index list, every uv and the grid's dimensions are as new made them.
C12_ShapeIsFixed ==
    LET fresh == OceanGridNew(physics)
        vertex_count == (physics.grid_size + 1) * (physics.grid_size + 1)
    IN  /\ DOMAIN grid.vertices = 0..(vertex_count - 1)
        /\ Len(grid.base_terrain_heights) = vertex_count
        /\ Len(grid.dirty_base_terrain) = vertex_count
        /\ grid.indices = fresh.indices
        /\ \A i \in DOMAIN grid.vertices : grid.vertices[i].uv = fresh.vertices[i].uv
        /\ grid.grid_size = fresh.grid_size
        /\ grid.grid_spacing = fresh.grid_spacing
        /\ grid.noise_seed = fresh.noise_seed

\* An update has moved a vertex, given it a height and dropped a triangle.
C12_Witness ==
    /\ last_tick # NoTick
    /\ \E i \in DOMAIN grid.vertices :
          /\ grid.vertices[i].position[1] # OceanGridNew(physics).vertices[i].position[1]
          /\ grid.vertices[i].position[2] # 0
    /\ Len(grid.filtered_indices) < Len(grid.indices)
    /\ ~grid.dirty_base_terrain[1]

\* The triangles of the index list, by number, that the filtered list holds.
KeptTriangles(g) ==
    {t \in 0..(TriangleCount(g.indices) - 1) :
        \E j \in 0..(TriangleCount(g.filtered_indices) - 1) :
            Triangle(g.filtered_indices, j) = Triangle(g.indices, t)}

\* The triangles numbered in kept among the count triangles from t on, in
\* the order of the index list.
RECURSIVE TriplesOf(_, _, _, _)
TriplesOf(indices, t, count, kept) ==
    IF count <= 0 THEN <<>>
    ELSE IF count = 1
    THEN (IF t \in kept THEN Triangle(indices, t) ELSE <<>>)
    ELSE TriplesOf(indices, t, count \div 2, kept)
         \o TriplesOf(indices, t + count \div 2, count - count \div 2, kept)

\* C13: the filtered list is always a whole number of triples, each a
\* triangle of the index list, in that list's order and none twice; and every
\* update builds it anew: it holds each triangle that passes the edge test at
\* the new positions, whether or not the list held it before.
C13_FilteredIsSublist ==
    /\ [](/\ Len(grid.filtered_indices) % 3 = 0
          /\ grid.filtered_indices = TriplesOf(grid.indices, 0, TriangleCount(grid.indices), KeptTriangles(grid)))
    /\ [][\A t \in 0..(TriangleCount(grid.indices) - 1) :
            KeepsTriangle(grid'.vertices, grid'.indices, t, grid'.grid_spacing)
                => t \in KeptTriangles(grid')]_vars

\* The filtered list holds some triangles of the index list and lacks others.
C13_Witness ==
    /\ last_tick # NoTick
    /\ KeptTriangles(grid) # {}
    /\ \E t \in 0..(TriangleCount(grid.indices) - 1) : t \notin KeptTriangles(grid)

\* The squared lengths of the three edges of triangle j of the filtered list.
EdgesSquared(g, j) ==
    LET tri == Triangle(g.filtered_indices, j)
        P(k) == g.vertices[tri[k]].position
    IN  {DistanceSquared(P(1), P(2)), DistanceSquared(P(2), P(3)),
         DistanceSquared(P(3), P(1))}

\* C14: after every update each edge of each triangle of the filtered list,
\* measured in space between the vertices' positions, is at most
\* 10 * grid_spacing long.
C14_KeptEdgesAreShort ==
    last_tick # NoTick =>
        \A j \in 0..(TriangleCount(grid.filtered_indices) - 1) :
            \A edge_sq \in EdgesSquared(grid, j) :
                ~WideLess(Squared(MaxEdgeFactor * grid.grid_spacing), edge_sq)

\* An update has kept a triangle that rises more than half the limit along
\* one edge, and has dropped another.
C14_Witness ==
    /\ last_tick # NoTick
    /\ Len(grid.filtered_indices) < Len(grid.indices)
    /\ \E j \in 0..(TriangleCount(grid.filtered_indices) - 1) :
          \E edge_sq \in EdgesSquared(grid, j) :
              WideLess(Squared((MaxEdgeFactor * grid.grid_spacing) \div 2), edge_sq)

\* World coordinate of vertex i along an axis (1 is x, 3 is z).
World(g, i, axis) == g.last_camera_pos[axis] + g.vertices[i].position[axis]

\* C15: after every update the cached base height of every vertex whose dirty
\* flag is clear is what query_base_terrain returns at the vertex's world
\* coordinates.
C15_CacheIsValid ==
    last_tick # NoTick =>
        \A i \in DOMAIN grid.vertices :
            ~grid.dirty_base_terrain[i + 1] =>
                grid.base_terrain_heights[i + 1]
                    = QueryBaseTerrain(grid, World(grid, i, 1), World(grid, i, 3), physics)

\* A clean vertex stands where it was not made, on terrain that is not flat.
C15_Witness ==
    /\ last_tick # NoTick
    /\ \E i \in DOMAIN grid.vertices :
          /\ ~grid.dirty_base_terrain[i + 1]
          /\ World(grid, i, 1) # OceanGridNew(physics).vertices[i].position[1]
          /\ grid.base_terrain_heights[i + 1] # 0

\* The step is an update that wrapped vertex i: its new local x or z is not
\* the old one less the camera's move.
WrappedByStep(i) ==
    \E axis \in {1, 3} :
        grid'.vertices[i].position[axis]
            # grid.vertices[i].position[axis]
                - (grid'.last_camera_pos[axis] - grid.last_camera_pos[axis])

AllDirtyWhenNew ==
    last_tick = NoTick => \A i \in DOMAIN grid.vertices : grid.dirty_base_terrain[i + 1]

C17_RepeatedTickIsIdle ==
    [][(/\ last_tick'.repeated
        /\ ocean_ret'[1] = ocean_ret[1]
        /\ ocean_ret'[2] = ocean_ret[2])
        => /\ \A i \in DOMAIN grid.vertices :
                ~WrappedByStep(i) /\ ~grid.dirty_base_terrain[i + 1]
           /\ grid'.base_terrain_heights = grid.base_terrain_heights
           /\ grid'.vertices = grid.vertices
           /\ grid'.dirty_base_terrain = grid.dirty_base_terrain
           /\ grid'.filtered_indices = grid.filtered_indices]_vars

\* The latest update repeated the one before it, away from the origin, at a
\* time other than 0 and with sound.
C17_Witness ==
    /\ last_tick.repeated
    /\ last_tick.camera_pos[1] # 0
    /\ last_tick.time_s # 0
    /\ last_tick.bands # ZeroBands

\* What the base terrain layer of a grid consists of: local x and z of every
\* vertex, the cached base heights and the dirty flags.
BaseLayer(g) ==
    [xz |-> [i \in DOMAIN g.vertices |->
                <<g.vertices[i].position[1], g.vertices[i].position[3]>>],
     base_terrain_heights |-> g.base_terrain_heights,
     dirty_base_terrain |-> g.dirty_base_terrain]

\* C18: after every tick a run has the local x and z, the cached base heights
\* and the dirty flags of the silent run along the same camera path, whatever
\* bands and times it was fed.
C18_BaseIgnoresAudio == BaseLayer(grid) = BaseLayer(twin)

\* The run heard sound at a time other than 0, stands on hills, and one of
\* its vertices is not as high as the silent run's.
C18_Witness ==
    /\ last_tick.bands # ZeroBands
    /\ last_tick.time_s # 0
    /\ \E i \in DOMAIN grid.vertices :
          /\ grid.vertices[i].position[2] # twin.vertices[i].position[2]
          /\ grid.base_terrain_heights[i + 1] # 0

\* The detail height of vertex i for a given amplitude and frequency at the
\* time of the latest update.
DetailHeight(g, i, amplitude, frequency) ==
    MulMilli(Sample3d(g.noise_seed, MulMilli(World(g, i, 1), frequency),
                      MulMilli(World(g, i, 3), frequency),
                      MulMilli(last_tick.time_s, physics.wave_speed)),
             amplitude)

\* C19: update returns amplitude = detail_amplitude_m + low * bass scale,
\* frequency = detail_frequency + mid * mid scale and line_width =
\* base_line_width + high * glow scale; the mesh was updated with that
\* amplitude and frequency; positive bands raise each output above its base
\* value; and the default values with bands (1.0, 0.5, 0.2) give
\* (5.0, 0.175, 0.026).
C19_MappingIsAffine ==
    last_tick # NoTick =>
        LET b == last_tick.bands
        IN  /\ ocean_ret[1] = physics.detail_amplitude_m
                                + (b.low * DefaultMapping.bass_to_amplitude_scale) \div Milli
            /\ ocean_ret[2] = physics.detail_frequency
                                + (b.mid * DefaultMapping.mid_to_frequency_scale) \div Milli
            /\ ocean_ret[3] = physics.base_line_width
                                + (b.high * DefaultMapping.high_to_glow_scale) \div Milli
            /\ \A i \in DOMAIN grid.vertices :
                  grid.vertices[i].position[2]
                    = grid.base_terrain_heights[i + 1]
                        + DetailHeight(grid, i, ocean_ret[1], ocean_ret[2])
            /\ (b.low > 0 /\ b.mid > 0 /\ b.high > 0)
                  => /\ ocean_ret[1] > physics.detail_amplitude_m
                     /\ ocean_ret[2] > physics.detail_frequency
                     /\ ocean_ret[3] > physics.base_line_width
            /\ (b = [low |-> 1000, mid |-> 500, high |-> 200])
                  => ocean_ret = <<5000, 175, 26>>

\* update has returned (5.0, 0.175, 0.026) and a vertex carries a ripple.
C19_Witness ==
    /\ last_tick # NoTick
    /\ ocean_ret = <<5000, 175, 26>>
    /\ \E i \in DOMAIN grid.vertices :
          grid.vertices[i].position[2] # grid.base_terrain_heights[i + 1]

\* The frequencies a worker running under configuration c hands to hz_to_bin.
BandLimits(c) ==
    {c.bass_range_hz[1], c.bass_range_hz[2], c.mid_range_hz[1], c.mid_range_hz[2],
     c.high_range_hz[1], c.high_range_hz[2]}

\* C20: under a configuration that passed validation, hz_to_bin(hz) is the
\* whole number k with k <= hz * fft_size / sample_rate_hz < k + 1, it does
\* not decrease as hz grows, and hz_to_bin(0) = 0.
C20_HzToBinIsFloor ==
    (new_pc # "validate" /\ new_result # "ErrInvalidFftConfig") =>
        /\ \A hz \in BandLimits(cfg) \cup {0} :
              LET k == HzToBin(cfg, hz)
              IN  /\ k * cfg.sample_rate_hz <= hz * cfg.fft_size
                  /\ hz * cfg.fft_size < (k + 1) * cfg.sample_rate_hz
        /\ \A lo, hi \in BandLimits(cfg) \cup {0} :
              lo <= hi => HzToBin(cfg, lo) <= HzToBin(cfg, hi)
        /\ HzToBin(cfg, 0) = 0

\* The FFT thread runs under a configuration one of whose band limits falls
\* strictly between two bins, above bin 0.
C20_Witness ==
    /\ new_result = "Ok"
    /\ worker = "running"
    /\ \E hz \in BandLimits(cfg) :
          /\ (hz * cfg.fft_size) % cfg.sample_rate_hz # 0
          /\ HzToBin(cfg, hz) > 0

\* C21: under the default configuration hz_to_bin(0) = 0, hz_to_bin(43.07) = 1
\* and hz_to_bin(100) = 2, and the three bin ranges follow one another
\* without overlap, bass ending by bin 10, mid by 50 and high by 200.
C21_DefaultBins ==
    (cfg = DefaultFFTConfigCentiHz /\ new_pc # "validate") =>
        /\ new_result # "ErrInvalidFftConfig"
        /\ HzToBin(cfg, 0) = 0
        /\ HzToBin(cfg, 4307) = 1
        /\ HzToBin(cfg, 100 * CentiHz) = 2
        /\ MidBins(cfg)[1] >= BassBins(cfg)[2]
        /\ HighBins(cfg)[1] >= MidBins(cfg)[2]
        /\ BassBins(cfg)[1] <= BassBins(cfg)[2]
        /\ MidBins(cfg)[1] <= MidBins(cfg)[2]
        /\ HighBins(cfg)[1] <= HighBins(cfg)[2]
        /\ BassBins(cfg)[2] <= 10
        /\ MidBins(cfg)[2] <= 50
        /\ HighBins(cfg)[2] <= 200

\* The FFT thread runs under the default configuration, whose bands are bins
\* 0..4, 4..23 and 23..92.
C21_Witness ==
    /\ cfg = DefaultFFTConfigCentiHz
    /\ new_result = "Ok"
    /\ worker = "running"
    /\ <<BassBins(cfg), MidBins(cfg), HighBins(cfg)>> = <<<<0, 4>>, <<4, 23>>, <<23, 92>>>>

\* C22: on a grid 100 wide, an update whose camera delta is +10 along x and
\* nothing along z takes a vertex at local x = 45 to 35, unwrapped and with
\* its clean cached base height untouched, and takes a vertex at local
\* x = -48 to 42, its base height recomputed for where it now stands.
C22_StationScenario ==
    [][(/\ GridExtent(grid) = 100 * Milli
        /\ grid'.last_camera_pos[1] - grid.last_camera_pos[1] = 10 * Milli
        /\ grid'.last_camera_pos[3] = grid.last_camera_pos[3])
        => \A i \in DOMAIN grid.vertices :
            /\ grid.vertices[i].position[1] = 45 * Milli
                 => /\ grid'.vertices[i].position[1] = 35 * Milli
                    /\ ~WrappedByStep(i)
                    /\ ~grid.dirty_base_terrain[i + 1]
                    /\ ~grid'.dirty_base_terrain[i + 1]
                    /\ grid'.base_terrain_heights[i + 1] = grid.base_terrain_heights[i + 1]
            /\ grid.vertices[i].position[1] = -48 * Milli
                 => /\ grid'.vertices[i].position[1] = 42 * Milli
                    /\ WrappedByStep(i)
                    /\ ~grid'.dirty_base_terrain[i + 1]
                    /\ grid'.base_terrain_heights[i + 1]
                          = QueryBaseTerrain(grid', World(grid', i, 1), World(grid', i, 3),
                                             physics)]_vars

\* The camera stands at x = 8 over a grid 100 wide; a vertex made at the
\* left edge is at local x = 42, one extent from where it was made.
C22_Witness ==
    /\ GridExtent(grid) = 100 * Milli
    /\ grid.last_camera_pos[1] = 8 * Milli
    /\ \E i \in DOMAIN grid.vertices :
          /\ OceanGridNew(physics).vertices[i].position[1] = -50 * Milli
          /\ grid.vertices[i].position[1] = 42 * Milli
          /\ World(grid, i, 1) = 50 * Milli
          /\ ~grid.dirty_base_terrain[i + 1]

\* The squared lengths of the three edges of triangle t of the index list.
TriangleEdgesSquared(g, t) ==
    LET tri == Triangle(g.indices, t)
        P(k) == g.vertices[tri[k]].position
    IN  {DistanceSquared(P(1), P(2)), DistanceSquared(P(2), P(3)),
         DistanceSquared(P(3), P(1))}

MaxEdgeSquared(g) == Squared(MaxEdgeFactor * g.grid_spacing)

\* C23: after every update a triangle of the index list is missing from the
\* filtered list exactly when one of its edges is longer than
\* 10 * grid_spacing; a triangle whose longest edge is 10 * grid_spacing
\* long, no more, is in the filtered list.
C23_DroppedIffLonger ==
    last_tick # NoTick =>
        LET kept == KeptTriangles(grid)
        IN  \A t \in 0..(TriangleCount(grid.indices) - 1) :
                t \notin kept
                    <=> \E edge_sq \in TriangleEdgesSquared(grid, t) :
                            WideLess(MaxEdgeSquared(grid), edge_sq)

TriangleVertices(g, t) == {Triangle(g.indices, t)[k] : k \in 1..3}

\* Triangle t of the index list is in the filtered list.
IsKept(g, t) ==
    \E j \in 0..(TriangleCount(g.filtered_indices) - 1) :
        Triangle(g.filtered_indices, j) = Triangle(g.indices, t)

\* Triangle t has an edge at least 10 * grid_spacing long on the ground,
\* heights left aside: a wrap has put one of its vertices on the other side.
StretchedOnGround(g, t) ==
    LET tri == Triangle(g.indices, t)
        Ground(k) == <<g.vertices[tri[k]].position[1], 0, g.vertices[tri[k]].position[3]>>
    IN  \E k \in 1..3 :
            ~WideLess(DistanceSquared(Ground(k), Ground((k % 3) + 1)), MaxEdgeSquared(g))

\* C24 as stated: a triangle that a tick dropped because it wrapped one of
\* its vertices to the other side is in the filtered list again after the
\* next tick, when that tick wraps none of its vertices.
C24_DroppedForOneTick ==
    [][\A t \in 0..(TriangleCount(grid.indices) - 1) :
           (/\ last_tick # NoTick
            /\ StretchedOnGround(grid, t)
            /\ TriangleVertices(grid, t) \cap wrapped_vertices # {}
            /\ ~IsKept(grid, t)
            /\ \A i \in TriangleVertices(grid, t) : ~WrappedByStep(i))
               => IsKept(grid', t)]_vars

\* C24 as the code has it: a tick that wraps no vertex of a triangle leaves
\* the x and z offsets between its vertices as they were, so a triangle that
\* a wrap stretched to 10 * grid_spacing or more on the ground is as
\* stretched after the tick as before it and is dropped again.
C24_DroppedWhileStretched ==
    [][\A t \in 0..(TriangleCount(grid.indices) - 1) :
           (/\ StretchedOnGround(grid, t)
            /\ \A i \in TriangleVertices(grid, t) : ~WrappedByStep(i))
               => /\ StretchedOnGround(grid', t)
                  /\ ~IsKept(grid', t)]_vars

\* A tick has wrapped no vertex of a triangle that an earlier wrap left
\* stretched on the ground, and the triangle is out of the filtered list.
C24_Witness ==
    /\ last_tick # NoTick
    /\ \E t \in 0..(TriangleCount(grid.indices) - 1) :
          /\ StretchedOnGround(grid, t)
          /\ TriangleVertices(grid, t) \cap wrapped_vertices = {}
          /\ ~IsKept(grid, t)

\* C25: every update leaves every vertex at its cached base height plus a
\* ripple sampled in that update: at the vertex's world x and z after the
\* wrap, times the frequency the update got for these bands, at the update's
\* time * wave_speed, scaled by the amplitude it got for these bands.
C25_HeightIsBasePlusRipple ==
    [][last_tick' # last_tick =>
        LET amplitude == physics.detail_amplitude_m
                + MulMilli(last_tick'.bands.low, DefaultMapping.bass_to_amplitude_scale)
            frequency == physics.detail_frequency
                + MulMilli(last_tick'.bands.mid, DefaultMapping.mid_to_frequency_scale)
            detail_t == MulMilli(last_tick'.time_s, physics.wave_speed)
        IN  \A i \in DOMAIN grid.vertices :
                grid'.vertices[i].position[2]
                    = grid'.base_terrain_heights[i + 1]
                        + MulMilli(Sample3d(grid.noise_seed,
                                            MulMilli(World(grid', i, 1), frequency),
                                            MulMilli(World(grid', i, 3), frequency),
                                            detail_t),
                                   amplitude)]_vars

\* A tick with sound at a time other than 0 has wrapped a vertex and left it
\* off its base height.
C25_Witness ==
    /\ last_tick # NoTick
    /\ last_tick.time_s # 0
    /\ last_tick.bands # ZeroBands
    /\ \E i \in DOMAIN grid.vertices :
          /\ World(grid, i, 1) # OceanGridNew(physics).vertices[i].position[1]
          /\ grid.vertices[i].position[2] # grid.base_terrain_heights[i + 1]

\* Where OceanGrid::new put vertex i along an axis (lines 50-51): its column
\* or row, which uv keeps, times the spacing, less the half extent.
InitialLocal(i, axis) ==
    grid.vertices[i].uv[IF axis = 1 THEN 1 ELSE 2] * grid.grid_spacing - GridHalf(grid)

\* Local x and z of every vertex.
GroundPositions(g) ==
    [i \in DOMAIN g.vertices |-> <<g.vertices[i].position[1], g.vertices[i].position[3]>>]

\* C27: from construction on, the world x and z of every vertex (camera
\* position + local position) is where the vertex was made plus a whole
\* number of extents; a tick that moves a vertex without taking it out of
\* [-half, half) leaves its world x and z as they were, whatever the camera
\* delta; and the x and z a tick gives the vertices are the same at any
\* camera height.
C27_WorldIsInitialPlusExtents ==
    /\ [](\A i \in DOMAIN grid.vertices : \A axis \in {1, 3} :
            (World(grid, i, axis) - InitialLocal(i, axis)) % GridExtent(grid) = 0)
    /\ [][\A i \in DOMAIN grid.vertices : \A axis \in {1, 3} :
            LET moved == grid.vertices[i].position[axis]
                            - (grid'.last_camera_pos[axis] - grid.last_camera_pos[axis])
            IN  (-GridHalf(grid) <= moved /\ moved < GridHalf(grid))
                    => World(grid', i, axis) = World(grid, i, axis)]_vars
    /\ [][last_tick' # last_tick =>
            \A y \in CameraHeights :
                \A other \in {OceanGridUpdate(grid, last_tick'.time_s, ocean_ret'[1],
                                              ocean_ret'[2],
                                              <<last_tick'.camera_pos[1], y,
                                                last_tick'.camera_pos[3]>>,
                                              physics)} :
                    GroundPositions(grid') = GroundPositions(other)]_vars

\* The camera has climbed to the upper height and left x = 0, and a vertex
\* stands one extent or more from where it was made.
C27_Witness ==
    /\ last_tick # NoTick
    /\ grid.last_camera_pos[2] = 2 * CameraHeight
    /\ grid.last_camera_pos[1] # 0
    /\ \E i \in DOMAIN grid.vertices :
          /\ World(grid, i, 1) # InitialLocal(i, 1)
          /\ grid.vertices[i].position[1] # InitialLocal(i, 1)

\* The vertices of triangle t stand to one another in x and z as
\* OceanGrid::new placed them: none is on the other side of the grid.
AtOriginalOffsets(g, t) ==
    \A a, b \in TriangleVertices(g, t) : \A axis \in {1, 3} :
        g.vertices[a].position[axis] - g.vertices[b].position[axis]
            = (g.vertices[a].uv[IF axis = 1 THEN 1 ELSE 2]
                 - g.vertices[b].uv[IF axis = 1 THEN 1 ELSE 2]) * g.grid_spacing

C30_StillGridKeepsAll ==
    [][(/\ last_tick = NoTick
        /\ last_tick' # NoTick
        /\ last_tick'.camera_pos = <<0, 0, 0>>
        /\ last_tick'.bands = ZeroBands
        /\ physics.base_terrain_amplitude_m = 0
        /\ physics.detail_amplitude_m = 0)
           => /\ \A i \in DOMAIN grid.vertices : ~WrappedByStep(i)
              /\ GroundPositions(grid') = GroundPositions(grid)
              /\ \A i, j \in DOMAIN grid.vertices :
                    i # j => GroundPositions(grid')[i] # GroundPositions(grid')[j]
              /\ grid'.filtered_indices = grid'.indices]_vars

\* C26: with the callback and the worker scheduled fairly a snapshot is
\* published in the end; a buffer that holds fft_size samples leads to a
\* cycle that has stored a snapshot and is about to drain; a cycle that finds
\* fft_size samples at its check goes on to store a snapshot, it never skips;
\* and the buffer holds fft_size samples again and again, it does not stay
\* short for ever.
C26_SnapshotEventuallyPublished ==
    /\ <>(fft_pc = "drain")
    /\ (Len(fft_buf) >= FftSize) ~> (fft_pc = "drain" /\ audio_bands = cycle_bands)
    /\ [][(fft_pc = "check" /\ Len(fft_buf) >= FftSize /\ fft_pc' # fft_pc)
            => fft_pc' = "lock_bands"]_vars
    /\ []<>(Len(fft_buf) >= FftSize)

\* A cycle has published what it computed from a window that was not
\* silent, and has drained; the buffer is short again.
C26_Witness ==
    /\ fft_pc = "sleep"
    /\ prev_tail # <<>>
    /\ audio_bands # ZeroBands
    /\ Len(fft_buf) < FftSize

\* The mutex a context is waiting for, if any.
WaitsFor ==
    [who \in {"callback", "fft", "main"} |->
        IF who = "callback" /\ cb_pc = "lock_buf" THEN {"fft_buffer"}
        ELSE IF who = "callback" /\ cb_pc = "record" THEN {"wav_writer"}
        ELSE IF who = "fft" /\ fft_pc = "lock_bands" THEN {"audio_bands"}
        ELSE {}]

Held(who) == {l \in Locks : lock[l] = who}

\* who cannot go on before other lets go of a mutex.
BlockedBy(who, other) == \E l \in WaitsFor[who] : lock[l] = other

\* C28: the callback takes the engine, then the buffer, then (recording) the
\* sink; the worker takes the buffer and, holding it, the snapshot; get_bands
\* takes the snapshot alone; no two or three contexts wait for one another in
\* a ring; and every context that asks for a mutex gets it in the end.
C28_NoDeadlock ==
    /\ [](/\ Held("callback") \in {{}, {"engine"}, {"engine", "fft_buffer"},
                                   {"engine", "fft_buffer", "wav_writer"}}
          /\ Held("fft") \in {{}, {"fft_buffer"}, {"fft_buffer", "audio_bands"}}
          /\ Held("main") \in {{}, {"audio_bands"}}
          /\ ~\E a, b \in {"callback", "fft", "main"} :
                  a # b /\ BlockedBy(a, b) /\ BlockedBy(b, a)
          /\ ~(/\ BlockedBy("callback", "fft") /\ BlockedBy("fft", "main")
                /\ BlockedBy("main", "callback"))
          /\ ~(/\ BlockedBy("callback", "main") /\ BlockedBy("main", "fft")
                /\ BlockedBy("fft", "callback")))
    /\ (cb_pc = "lock_buf") ~> (lock["fft_buffer"] = "callback")
    /\ (cb_pc = "record") ~> (lock["wav_writer"] = "callback")
    /\ (fft_pc = "sleep") ~> (lock["fft_buffer"] = "fft")
    /\ (fft_pc = "lock_bands") ~> (lock["audio_bands"] = "fft")
    /\ (rd_pc = "idle") ~> (lock["audio_bands"] = "main")

\* The callback, recording, holds its three mutexes while the render loop
\* holds the snapshot and the worker waits for the buffer to come free.
C28_Witness ==
    /\ Held("callback") = {"engine", "fft_buffer", "wav_writer"}
    /\ Held("main") = {"audio_bands"}
    /\ fft_pc = "sleep"
    /\ prev_tail # <<>>
====
